---------------------------- MODULE Spec2Model ----------------------------
(***************************************************************************)
(* Committee key material, decryption shares and share merging of         *)
(* jormungandr: jcli's `vote tally` decryption commands                   *)
(* (decryption_tally.rs) and the testing utilities' committee key manager *)
(* (wallet/committee.rs).                                                  *)
(*                                                                         *)
(* Every command is one invocation: the model starts a run (pc = "start"), *)
(* performs one command on inputs drawn from bounded sets and records its  *)
(* result and what it printed.  Key generation is followed by the writing  *)
(* of the key directories, which may fail part-way, and the reading back   *)
(* of the files written.                                                   *)
(*                                                                         *)
(* The cryptographic library (chain_vote) and the bech32 / base64 crates   *)
(* are not part of the repository.  The group is modelled as the additive  *)
(* group of integers modulo 2^16 (a key is two bytes), bech32 by its bit    *)
(* regrouping and its BCH checksum, base64 by its bit regrouping.          *)
(***************************************************************************)
EXTENDS Integers, Sequences, FiniteSets, TLC

(***************************************************************************)
(* Bounds of the model.                                                    *)
(***************************************************************************)
MaxRoster == 3
MaxThreshold == 4
MaxProposals == 3
MaxBundles == 3
MaxBundleLen == 2
MaxTallyLen == 3
MaxRuns == 2

(***************************************************************************)
(* State.  pc is the position of the running command, op the command,      *)
(* input its arguments, manager the committee manager in memory, files the *)
(* key directory on disk, result what a jcli command returned, and log the *)
(* commands that have finished, oldest first.                              *)
(***************************************************************************)
VARIABLES pc, op, input, manager, files, result, log

vars == <<pc, op, input, manager, files, result, log>>

(***************************************************************************)
(* Generic helpers.                                                        *)
(***************************************************************************)
SeqsUpTo(S, n) == UNION {[1..k -> S] : k \in 0..n}

Pow2(n) == 2 ^ n

RECURSIVE XorBits(_, _)
\* bitwise exclusive or, bit by bit
XorBits(a, b) ==
    IF a = 0 THEN b
    ELSE IF b = 0 THEN a
    ELSE (((a % 2) + (b % 2)) % 2) + 2 * XorBits(a \div 2, b \div 2)

\* the exclusive or of two 5-bit values, tabulated
Xor5 == [a \in 0..31 |-> [b \in 0..31 |-> XorBits(a, b)]]

RECURSIVE Xor(_, _)
\* bitwise exclusive or, five bits at a time
Xor(a, b) ==
    IF a = 0 THEN b
    ELSE IF b = 0 THEN a
    ELSE Xor5[a % 32][b % 32] + 32 * Xor(a \div 32, b \div 32)

(***************************************************************************)
(* bech32::convert_bits, as used by ToBase32 / FromBase32: regroup a       *)
(* sequence of `from`-bit values into `to`-bit values, most significant    *)
(* bit first.  Run as the crate's loop: acc/bits carry the pending bits.   *)
(* The result is [ok |-> TRUE, v |-> seq] or [ok |-> FALSE].               *)
(***************************************************************************)
RECURSIVE Drain(_, _, _, _)
\* the inner `while bits >= to` loop: returns <<bits, ret>>
Drain(acc, bits, to, ret) ==
    IF bits >= to
        THEN Drain(acc, bits - to, to,
                   Append(ret, (acc \div Pow2(bits - to)) % Pow2(to)))
        ELSE <<bits, ret>>

RECURSIVE ConvertLoop(_, _, _, _, _, _, _)
ConvertLoop(data, i, from, to, acc, bits, ret) ==
    IF i > Len(data) THEN [ok |-> TRUE, acc |-> acc, bits |-> bits, ret |-> ret]
    ELSE IF data[i] \div Pow2(from) # 0 THEN [ok |-> FALSE]
    ELSE LET acc2 == (acc * Pow2(from) + data[i]) % Pow2(from + to)
             d    == Drain(acc2, bits + from, to, ret)
         IN ConvertLoop(data, i + 1, from, to, acc2, d[1], d[2])

ConvertBits(data, from, to, pad) ==
    LET r == ConvertLoop(data, 1, from, to, 0, 0, <<>>)
    IN IF ~r.ok THEN [ok |-> FALSE]
       ELSE LET rest == (r.acc * Pow2(to - r.bits)) % Pow2(to)
            IN IF pad
                 THEN [ok |-> TRUE,
                       v |-> IF r.bits > 0 THEN Append(r.ret, rest) ELSE r.ret]
                 ELSE IF r.bits >= from \/ rest # 0
                        THEN [ok |-> FALSE]
                        ELSE [ok |-> TRUE, v |-> r.ret]

\* ToBase32 for byte slices: 8-bit to 5-bit groups, padded.
ToBase32(bytes) == ConvertBits(bytes, 8, 5, TRUE).v

\* Vec::<u8>::from_base32: 5-bit to 8-bit groups, padding bits must be zero.
FromBase32(u5s) == ConvertBits(u5s, 5, 8, FALSE)

(***************************************************************************)
(* bech32: the BCH checksum over the expanded human-readable part (hrp)    *)
(* and the 5-bit data.  An hrp is the sequence of its ASCII codes.  A text *)
(* is the record [hrp, data], data holding the payload followed by the six *)
(* checksum characters (each character is its 5-bit value; the separator   *)
(* "1" is the record boundary).                                            *)
(***************************************************************************)
Bech32Gen == <<996825010, 642813549, 513874426, 1027748829, 705979059>>

RECURSIVE PolymodGen(_, _, _)
\* for i in 0..5: if (b >> i) & 1 == 1 { chk ^= GEN[i] }
PolymodGen(chk, b, i) ==
    IF i > 5 THEN chk
    ELSE PolymodGen(IF (b \div Pow2(i - 1)) % 2 = 1 THEN Xor(chk, Bech32Gen[i]) ELSE chk,
                    b, i + 1)

PolymodStep(chk, v) ==
    PolymodGen(Xor((chk % Pow2(25)) * 32, v), chk \div Pow2(25), 1)

RECURSIVE PolymodFrom(_, _, _)
PolymodFrom(chk, values, i) ==
    IF i > Len(values) \/ chk < 0 THEN chk
    ELSE PolymodFrom(PolymodStep(chk, values[i]), values, i + 1)

HrpExpand(hrp) ==
    [i \in 1..Len(hrp) |-> hrp[i] \div 32] \o <<0>> \o [i \in 1..Len(hrp) |-> hrp[i] % 32]

Polymod(hrp, data) == PolymodFrom(PolymodFrom(1, HrpExpand(hrp), 1), data, 1)

CreateChecksum(hrp, data) ==
    LET plm == Xor(Polymod(hrp, data \o <<0, 0, 0, 0, 0, 0>>), 1)
    IN [i \in 1..6 |-> (plm \div Pow2(5 * (6 - i))) % 32]

\* bech32::encode(hrp, data)
Bech32Encode(hrp, data) == [hrp |-> hrp, data |-> data \o CreateChecksum(hrp, data)]

\* the bech32 alphabet "qpzry9x8gf2tvdw0s3jn54khce6mua7l" as character codes
Charset ==
    <<113, 112, 122, 114, 121, 57, 120, 56, 103, 102, 50, 116, 118, 100, 119, 48,
      115, 51, 106, 110, 53, 52, 107, 104, 99, 101, 54, 109, 117, 97, 55, 108>>

\* the separator "1"
Separator == 49

\* the greatest length of a tag
MaxHrpLen == 83

\* letters and their cases, as character codes
IsUpper(ch) == ch >= 65 /\ ch <= 90
IsLower(ch) == ch >= 97 /\ ch <= 122
ToLower(ch) == IF IsUpper(ch) THEN ch + 32 ELSE ch
ToUpper(ch) == IF IsLower(ch) THEN ch - 32 ELSE ch

\* A text is [hrp, data]: the characters before the last separator, as
\* character codes, and the characters after it.  A data character is kept
\* as v in 0..31 when it is the character v of the alphabet, as 32 + v when
\* it is the upper-case form of that character, and as 128 + its code when
\* it is neither.
DataChar(d) ==
    IF d < 32 THEN Charset[d + 1]
    ELSE IF d < 64 THEN ToUpper(Charset[d - 31])
    ELSE d - 128

\* the characters of a text: the tag, the separator, the data characters
TextChars(text) ==
    text.hrp \o <<Separator>> \o [i \in 1..Len(text.data) |-> DataChar(text.data[i])]

\* CHARSET_REV: the value of a data character, in either case
CharValue(ch) ==
    IF \E v \in 0..31 : Charset[v + 1] = ch
      THEN CHOOSE v \in 0..31 : Charset[v + 1] = ch
    ELSE IF IsUpper(ch) /\ \E v \in 0..31 : Charset[v + 1] = ToLower(ch)
      THEN 32 + (CHOOSE v \in 0..31 : Charset[v + 1] = ToLower(ch))
    ELSE 128 + ch

\* a string of characters as a text: bech32 splits at the last separator;
\* a string without separator is marked
TextOfChars(chars) ==
    LET seps == {i \in 1..Len(chars) : chars[i] = Separator}
    IN IF seps = {} THEN [hrp |-> chars, data |-> <<>>, separator |-> FALSE]
       ELSE LET j == CHOOSE i \in seps : \A k \in seps : k <= i
            IN [hrp |-> SubSeq(chars, 1, j - 1),
                data |-> [i \in 1..(Len(chars) - j) |-> CharValue(chars[j + i])]]

\* the text in upper case
UpperCase(text) ==
    [hrp |-> [i \in 1..Len(text.hrp) |-> ToUpper(text.hrp[i])],
     data |-> [i \in 1..Len(text.data) |->
                  IF text.data[i] < 32 /\ IsLower(Charset[text.data[i] + 1])
                    THEN 32 + text.data[i] ELSE text.data[i]]]

\* bech32::decode(text): (hrp in lower case, data without checksum), or an
\* error: no separator, an empty tag, a tag of more than 83 characters or
\* fewer than six data characters, a tag character outside 33..126, a data
\* character outside the alphabet, letters of both cases, a wrong checksum
Bech32Decode(text) ==
    IF "separator" \in DOMAIN text THEN [ok |-> FALSE]
    ELSE IF Len(text.hrp) < 1 \/ Len(text.hrp) > MaxHrpLen \/ Len(text.data) < 6
      THEN [ok |-> FALSE]
    ELSE IF \E i \in 1..Len(text.hrp) : text.hrp[i] < 33 \/ text.hrp[i] > 126
      THEN [ok |-> FALSE]
    ELSE IF \E i \in 1..Len(text.data) : text.data[i] > 63 THEN [ok |-> FALSE]
    ELSE IF /\ \/ \E i \in 1..Len(text.hrp) : IsUpper(text.hrp[i])
               \/ \E i \in 1..Len(text.data) : text.data[i] > 31
            /\ \/ \E i \in 1..Len(text.hrp) : IsLower(text.hrp[i])
               \/ \E i \in 1..Len(text.data) :
                     text.data[i] < 32 /\ IsLower(Charset[text.data[i] + 1])
      THEN [ok |-> FALSE]
    ELSE LET hrp == [i \in 1..Len(text.hrp) |-> ToLower(text.hrp[i])]
             data == [i \in 1..Len(text.data) |-> text.data[i] % 32]
         IN IF Polymod(hrp, data) # 1 THEN [ok |-> FALSE]
            ELSE [ok |-> TRUE, hrp |-> hrp,
                  data |-> SubSeq(data, 1, Len(data) - 6)]


(***************************************************************************)
(* The tags (human-readable parts) of the key kinds.                       *)
(***************************************************************************)
\* "p256k1_vcommsk"
COMMUNICATION_SK_HRP == <<112, 50, 53, 54, 107, 49, 95, 118, 99, 111, 109, 109, 115, 107>>
\* "p256k1_membersk"
MEMBER_SK_HRP == <<112, 50, 53, 54, 107, 49, 95, 109, 101, 109, 98, 101, 114, 115, 107>>
\* "p256k1_votepk"
ENCRYPTING_VOTE_PK_HRP == <<112, 50, 53, 54, 107, 49, 95, 118, 111, 116, 101, 112, 107>>
\* jcli's crate::jcli_app::vote::bech32_constants::MEMBER_SK_HRP: the tag of the
\* member secret key kind, the one the key manager writes.
JcliMemberSkHrp == MEMBER_SK_HRP

(***************************************************************************)
(* The group of chain_vote, modelled as the integers modulo 2^16 under     *)
(* addition: a scalar and a group element are 16-bit values, serialised as *)
(* two bytes, most significant first.                                      *)
(***************************************************************************)
KeyBytesLen == 2
GroupOrder == Pow2(8 * KeyBytesLen)
Generator == 24943

\* Scalar::to_bytes / GroupElement::to_bytes
KeyToBytes(k) == <<k \div 256, k % 256>>

\* OpeningVoteKey::from_bytes / EncryptingVoteKey::from_bytes: None unless the
\* slice has the key's length
KeyFromBytes(bytes) ==
    IF Len(bytes) = KeyBytesLen
        THEN [ok |-> TRUE, key |-> bytes[1] * 256 + bytes[2]]
        ELSE [ok |-> FALSE]

\* MemberCommunicationKey::to_public / the public key of a member secret key
ToPublic(sk) == (sk * Generator) % GroupOrder

RECURSIVE SumKeys(_, _)
SumKeys(pks, i) == IF i > Len(pks) THEN 0 ELSE (pks[i] + SumKeys(pks, i + 1)) % GroupOrder

\* ElectionPublicKey::from_participants: the sum of the participants' public keys
FromParticipants(pks) == SumKeys(pks, 1)

(***************************************************************************)
(* A file is [exists |-> FALSE] or [exists |-> TRUE, line |-> text].       *)
(***************************************************************************)
NoFile == [exists |-> FALSE]
FileOf(text) == [exists |-> TRUE, line |-> text]

(***************************************************************************)
(* committee.rs: the lines the key files hold.                             *)
(***************************************************************************)
\* write_communication_key
CommunicationKeyLine(communication_key) ==
    Bech32Encode(COMMUNICATION_SK_HRP, ToBase32(KeyToBytes(communication_key)))

\* write_member_secret_key writing under the communication key's tag
MemberSecretKeyLineWrongTag(member_secret_key) ==
    Bech32Encode(COMMUNICATION_SK_HRP, ToBase32(KeyToBytes(member_secret_key)))

\* write_member_secret_key
MemberSecretKeyLine(member_secret_key) ==
    Bech32Encode(MEMBER_SK_HRP, ToBase32(KeyToBytes(member_secret_key)))

\* ElectionPublicKeyExtension::to_base32 (write_encrypting_vote_key)
ElectionKeyToBase32(election_public_key) ==
    Bech32Encode(ENCRYPTING_VOTE_PK_HRP, ToBase32(KeyToBytes(election_public_key)))

\* committee.rs encrypting_key_from_base32
EncryptingKeyFromBase32(key) ==
    LET d == Bech32Decode(key)
    IN IF ~d.ok THEN [ok |-> FALSE, err |-> "InvalidBech32"]
       ELSE IF d.hrp # ENCRYPTING_VOTE_PK_HRP
         THEN [ok |-> FALSE, err |-> "InvalidBech32Key"]
       ELSE LET key_bin == FromBase32(d.data)
            IN IF ~key_bin.ok THEN [ok |-> FALSE, err |-> "Bech32"]
               ELSE LET k == KeyFromBytes(key_bin.v)
                    IN IF ~k.ok THEN [ok |-> FALSE, err |-> "VoteEncryptingKey"]
                       ELSE [ok |-> TRUE, key |-> k.key]

\* read_decryption_key without the comparison of the tag
ReadDecryptionKeyNoTagCheck(file) ==
    IF ~file.exists THEN [ok |-> FALSE, err |-> "Io"]
    ELSE LET d == Bech32Decode(file.line)
         IN IF ~d.ok THEN [ok |-> FALSE, err |-> "Bech32"]
            ELSE LET raw == FromBase32(d.data)
                 IN IF ~raw.ok THEN [ok |-> FALSE, err |-> "DecryptionKeyRead"]
                    ELSE LET k == KeyFromBytes(raw.v)
                         IN IF ~k.ok THEN [ok |-> FALSE, err |-> "DecryptionKeyRead"]
                            ELSE [ok |-> TRUE, key |-> k.key]

(***************************************************************************)
(* decryption_tally.rs read_decryption_key: the file is read as one line   *)
(* (io::read_line fails when it cannot be read).                           *)
(***************************************************************************)
ReadDecryptionKey(file) ==
    IF ~file.exists THEN [ok |-> FALSE, err |-> "Io"]
    ELSE LET d == Bech32Decode(file.line)
         IN IF ~d.ok THEN [ok |-> FALSE, err |-> "Bech32"]
            ELSE IF d.hrp # JcliMemberSkHrp
              THEN [ok |-> FALSE, err |-> "InvalidSecretKey"]
            ELSE LET raw == FromBase32(d.data)
                 IN IF ~raw.ok THEN [ok |-> FALSE, err |-> "DecryptionKeyRead"]
                    ELSE LET k == KeyFromBytes(raw.v)
                         IN IF ~k.ok THEN [ok |-> FALSE, err |-> "DecryptionKeyRead"]
                            ELSE [ok |-> TRUE, key |-> k.key]

(***************************************************************************)
(* The random number generator handed to key generation: a full-period     *)
(* linear congruential generator on 16 bits; a draw advances the state and *)
(* returns it.                                                             *)
(***************************************************************************)
RngNext(rng) == (rng * 25173 + 13849) % GroupOrder

RECURSIVE RngSkip(_, _)
RngSkip(rng, k) == IF k = 0 THEN rng ELSE RngSkip(RngNext(rng), k - 1)

(***************************************************************************)
(* chain_vote MemberState::new(rng, t, crs, committee_pks, my): asserts    *)
(* 0 < t <= |committee_pks| and my < |committee_pks|; draws the two random *)
(* polynomials of t coefficients (commitment polynomial first), then       *)
(* encrypts two shares to every other member, each with one draw.  The     *)
(* member secret key is the constant coefficient of the second polynomial. *)
(***************************************************************************)
MemberStateNew(rng, t, crs, committee_pks, my) ==
    LET n == Len(committee_pks)
    IN IF t = 0 \/ t > n \/ my >= n THEN [panic |-> TRUE]
       ELSE LET sk == RngSkip(rng, t + 1)
            IN [panic |-> FALSE,
                rng |-> RngSkip(rng, 2 * t + 2 * (n - 1)),
                secret_key |-> sk,
                public_key |-> ToPublic(sk)]

(***************************************************************************)
(* committee.rs PrivateVoteCommitteeDataManager::new.  committees is the   *)
(* roster, a sequence of <<alias, identifier>>.  The result is             *)
(* [panic |-> TRUE] or [panic |-> FALSE, data |-> the map].                *)
(***************************************************************************)
\* HashMap::insert
MapInsert(data, k, v) == [x \in (DOMAIN data) \cup {k} |-> IF x = k THEN v ELSE data[x]]

\* PrivateVoteCommitteeData::new
PrivateVoteCommitteeData(alias, communication_key, member_secret_key, member_public_key, election_public_key) ==
    [alias |-> alias,
     communication_key |-> communication_key,
     member_secret_key |-> member_secret_key,
     member_public_key |-> member_public_key,
     election_public_key |-> election_public_key]

\* ElectionParticipants taking the keys of the whole committee as well
ElectionParticipantsWholeCommittee(ms, communication_public_keys) ==
    <<ms.public_key>> \o communication_public_keys

\* the participants the election key of a member is built from (line 179)
ElectionParticipants(ms, communication_public_keys) == <<ms.public_key>>

RECURSIVE ManagerLoopCopiedRng(_, _, _, _, _, _, _)
\* ManagerLoop handing every MemberState::new a copy of the generator
ManagerLoopCopiedRng(rng, committees, threshold, crs, communication_secret_keys, index, data) ==
    IF index >= Len(committees) THEN [panic |-> FALSE, data |-> data, rng |-> rng]
    ELSE LET communication_public_keys ==
                 [i \in 1..Len(communication_secret_keys) |->
                     ToPublic(communication_secret_keys[i])]
             ms == MemberStateNew(rng, threshold, crs, communication_public_keys, index)
         IN IF ms.panic THEN [panic |-> TRUE]
            ELSE ManagerLoopCopiedRng(rng, committees, threshold, crs,
                     communication_secret_keys, index + 1,
                     MapInsert(data, committees[index + 1][2],
                         PrivateVoteCommitteeData(
                             committees[index + 1][1],
                             communication_secret_keys[index + 1],
                             ms.secret_key,
                             ms.public_key,
                             FromParticipants(
                                 ElectionParticipants(ms, communication_public_keys)))))

RECURSIVE ManagerLoop(_, _, _, _, _, _, _)
\* for (index, (alias, pk)) in committees.iter().enumerate(); index is 0-based
ManagerLoop(rng, committees, threshold, crs, communication_secret_keys, index, data) ==
    IF index >= Len(committees) THEN [panic |-> FALSE, data |-> data, rng |-> rng]
    ELSE LET communication_public_keys ==
                 [i \in 1..Len(communication_secret_keys) |->
                     ToPublic(communication_secret_keys[i])]
             ms == MemberStateNew(rng, threshold, crs, communication_public_keys, index)
         IN IF ms.panic THEN [panic |-> TRUE]
            ELSE ManagerLoop(ms.rng, committees, threshold, crs,
                     communication_secret_keys, index + 1,
                     MapInsert(data, committees[index + 1][2],
                         PrivateVoteCommitteeData(
                             committees[index + 1][1],
                             communication_secret_keys[index + 1],
                             ms.secret_key,
                             ms.public_key,
                             FromParticipants(
                                 ElectionParticipants(ms, communication_public_keys)))))

\* ManagerNew drawing the communication keys before the reference parameter
ManagerNewCommunicationKeysFirst(rng, committees, threshold) ==
    LET communication_secret_keys ==
            [i \in 1..Len(committees) |-> RngSkip(rng, i)]
        crs == RngSkip(rng, Len(committees) + 1)
    IN ManagerLoop(crs, committees, threshold, crs,
                   communication_secret_keys, 0, <<>>)

ManagerNew(rng, committees, threshold) ==
    LET crs == RngNext(rng)
        communication_secret_keys ==
            [i \in 1..Len(committees) |-> RngSkip(crs, i)]
    IN ManagerLoop(RngSkip(crs, Len(committees)), committees, threshold, crs,
                   communication_secret_keys, 0, <<>>)

\* PrivateVoteCommitteeDataManager::get
ManagerGet(data, identifier) ==
    IF identifier \in DOMAIN data
        THEN [some |-> TRUE, v |-> data[identifier]]
        ELSE [some |-> FALSE]


(***************************************************************************)
(* base64 (standard alphabet): a text is [sym, pad], the 6-bit values of   *)
(* its characters and the number of trailing "=".  A value above 63 stands *)
(* for a character outside the alphabet.  Encoding pads; decoding takes a  *)
(* text with or without padding: it refuses a character outside the        *)
(* alphabet, a single character left over after the groups of four, a "="  *)
(* in the first half of a group of four, and left-over bits that are not   *)
(* zero.                                                                   *)
(***************************************************************************)
Base64Encode(bytes) ==
    [sym |-> ConvertBits(bytes, 8, 6, TRUE).v, pad |-> (3 - (Len(bytes) % 3)) % 3]

Base64Decode(text) ==
    LET over == Len(text.sym) % 4
    IN IF over = 1 THEN [ok |-> FALSE]
       ELSE IF text.pad > (IF over = 0 THEN 0 ELSE 4 - over) THEN [ok |-> FALSE]
       ELSE ConvertBits(text.sym, 6, 8, FALSE)

(***************************************************************************)
(* chain_vote EncryptedTally: a sequence of ciphertexts, each a pair of    *)
(* group elements <<e1, e2>>.  In a tally blob a group element takes one   *)
(* byte; the byte InvalidPoint encodes no group element.                   *)
(***************************************************************************)
CiphertextLen == 2
InvalidPoint == 255

\* EncryptedTally::from_bytes: None unless the blob is a whole number of
\* ciphertexts, each of valid group elements
EncryptedTallyFromBytes(bytes) ==
    IF Len(bytes) % CiphertextLen # 0 THEN [some |-> FALSE]
    ELSE IF \E i \in 1..Len(bytes) : bytes[i] = InvalidPoint THEN [some |-> FALSE]
    ELSE [some |-> TRUE,
          v |-> [i \in 1..(Len(bytes) \div CiphertextLen) |->
                    <<bytes[CiphertextLen * i - 1], bytes[CiphertextLen * i]>>]]

\* EncryptedTally::finish(&decryption_key).1: the decryption share, one group
\* element per ciphertext, the key applied to the ciphertext's first element
Finish(encrypted_tally, decryption_key) ==
    [i \in 1..Len(encrypted_tally) |->
        (decryption_key * encrypted_tally[i][1]) % GroupOrder]

RECURSIVE ShareToBytes(_)
\* TallyDecryptShare::to_bytes
ShareToBytes(share) ==
    IF share = <<>> THEN <<>>
    ELSE KeyToBytes(share[1]) \o ShareToBytes(Tail(share))

(***************************************************************************)
(* decryption_tally.rs TallyGenerateDecryptionShare::exec.  The result     *)
(* records the error or success, what was printed, and the files read.     *)
(***************************************************************************)
Failure(err, reads) == [ok |-> FALSE, err |-> err, stdout |-> <<>>, reads |-> reads]
Success(stdout, reads) == [ok |-> TRUE, stdout |-> stdout, reads |-> reads]

\* TallyGenerateDecryptionShare::exec reading the key before the tally is parsed
TallyGenerateDecryptionShareExecKeyFirst(encrypted_tally_file, decryption_key_file) ==
    IF ~encrypted_tally_file.exists THEN Failure("Io", <<"tally">>)
    ELSE LET decryption_key == ReadDecryptionKey(decryption_key_file)
             encrypted_tally_bytes == Base64Decode(encrypted_tally_file.line)
         IN IF ~decryption_key.ok THEN Failure(decryption_key.err, <<"tally", "key">>)
            ELSE IF ~encrypted_tally_bytes.ok THEN Failure("Base64", <<"tally", "key">>)
            ELSE LET encrypted_tally == EncryptedTallyFromBytes(encrypted_tally_bytes.v)
                 IN IF ~encrypted_tally.some
                      THEN Failure("EncryptedTallyRead", <<"tally", "key">>)
                      ELSE Success(
                          <<Base64Encode(ShareToBytes(
                              Finish(encrypted_tally.v, decryption_key.key)))>>,
                          <<"tally", "key">>)

TallyGenerateDecryptionShareExec(encrypted_tally_file, decryption_key_file) ==
    IF ~encrypted_tally_file.exists THEN Failure("Io", <<"tally">>)
    ELSE LET encrypted_tally_bytes == Base64Decode(encrypted_tally_file.line)
         IN IF ~encrypted_tally_bytes.ok THEN Failure("Base64", <<"tally">>)
            ELSE LET encrypted_tally == EncryptedTallyFromBytes(encrypted_tally_bytes.v)
                 IN IF ~encrypted_tally.some
                      THEN Failure("EncryptedTallyRead", <<"tally">>)
                      ELSE LET decryption_key == ReadDecryptionKey(decryption_key_file)
                           IN IF ~decryption_key.ok
                                THEN Failure(decryption_key.err, <<"tally", "key">>)
                                ELSE Success(
                                    <<Base64Encode(ShareToBytes(
                                        Finish(encrypted_tally.v, decryption_key.key)))>>,
                                    <<"tally", "key">>)

(***************************************************************************)
(* A proposal's tally: none, public, private decrypted, or private         *)
(* encrypted with the bytes of its encrypted tally.                        *)
(***************************************************************************)
TallyNone == [kind |-> "None"]
TallyPublic == [kind |-> "Public"]
TallyDecrypted == [kind |-> "PrivateDecrypted"]
TallyEncrypted(bytes) == [kind |-> "PrivateEncrypted", encrypted_tally |-> bytes]

\* the closure of filter_map: Some(share) or None for one proposal.  The `?`
\* on EncryptedTally::from_bytes returns None from the closure.
ShareOfProposal(prop, decryption_key) ==
    IF prop.tally.kind = "PrivateEncrypted"
        THEN LET encrypted_tally == EncryptedTallyFromBytes(prop.tally.encrypted_tally)
             IN IF ~encrypted_tally.some THEN [some |-> FALSE]
                ELSE [some |-> TRUE, v |-> Finish(encrypted_tally.v, decryption_key)]
        ELSE [some |-> FALSE]

RECURSIVE FilterMapShares(_, _, _)
\* proposals.into_iter().filter_map(..).collect::<Vec<_>>()
FilterMapShares(proposals, decryption_key, i) ==
    IF i > Len(proposals) THEN <<>>
    ELSE LET s == ShareOfProposal(proposals[i], decryption_key)
         IN (IF s.some THEN <<s.v>> ELSE <<>>)
                \o FilterMapShares(proposals, decryption_key, i + 1)

\* MemberVotePlanShares::from(shares): the bundle is the list of shares
MemberVotePlanShares(shares) == shares

\* TallyGenerateVotePlanDecryptionShares::exec; vote_plan is the outcome of
\* vote::get_vote_plan_by_id
TallyGenerateVotePlanDecryptionSharesExec(vote_plan, key_file) ==
    IF ~vote_plan.ok THEN Failure("VotePlan", <<"vote_plan">>)
    ELSE LET decryption_key == ReadDecryptionKey(key_file)
         IN IF ~decryption_key.ok
              THEN Failure(decryption_key.err, <<"vote_plan", "key">>)
              ELSE Success(
                  <<MemberVotePlanShares(
                      FilterMapShares(vote_plan.proposals, decryption_key.key, 1))>>,
                  <<"vote_plan", "key">>)

(***************************************************************************)
(* decryption_tally.rs MergeShares::exec.  A bundle document is            *)
(* [state |-> "unreadable"] (the file cannot be opened),                   *)
(* [state |-> "malformed"] (not a bundle document) or                      *)
(* [state |-> "bundle", shares |-> the member's list of shares].           *)
(***************************************************************************)
RECURSIVE ReadBundlesSkipMalformed(_, _, _)
\* ReadBundles passing over a document that is no bundle (filter_map for map)
ReadBundlesSkipMalformed(docs, i, acc) ==
    IF i > Len(docs) THEN [ok |-> TRUE, v |-> acc, opened |-> i - 1]
    ELSE IF docs[i].state = "unreadable" THEN [ok |-> FALSE, err |-> "Io", opened |-> i]
    ELSE IF docs[i].state = "malformed" THEN ReadBundlesSkipMalformed(docs, i + 1, acc)
    ELSE ReadBundlesSkipMalformed(docs, i + 1, Append(acc, docs[i].shares))

RECURSIVE ReadBundles(_, _, _)
\* .map(|path| Ok(from_reader(open_file_read(path)?)?)).collect::<Result<Vec<_>, _>>()
ReadBundles(docs, i, acc) ==
    IF i > Len(docs) THEN [ok |-> TRUE, v |-> acc, opened |-> i - 1]
    ELSE IF docs[i].state = "unreadable" THEN [ok |-> FALSE, err |-> "Io", opened |-> i]
    ELSE IF docs[i].state = "malformed" THEN [ok |-> FALSE, err |-> "Json", opened |-> i]
    ELSE ReadBundles(docs, i + 1, Append(acc, docs[i].shares))

RECURSIVE MaxLen(_, _)
\* the length of the longest bundle
MaxLen(bundles, i) ==
    IF i > Len(bundles) THEN 0
    ELSE LET m == MaxLen(bundles, i + 1)
         IN IF Len(bundles[i]) > m THEN Len(bundles[i]) ELSE m

RECURSIVE SharesAt(_, _, _)
\* the shares at position p of the bundles that reach it, in bundle order
SharesAt(bundles, p, i) ==
    IF i > Len(bundles) THEN <<>>
    ELSE (IF Len(bundles[i]) >= p THEN <<bundles[i][p]>> ELSE <<>>)
            \o SharesAt(bundles, p, i + 1)

\* VotePlanDecryptShares::try_from(Vec<MemberVotePlanShares>), whose code
\* (jcli_app/utils/vote.rs) is not part of the sources: the outcomes the
\* call at decryption_tally.rs:128 can have.  It is fallible, and which
\* bundles it refuses is not known; when it succeeds its value is taken to
\* be the per-position concatenation in bundle order.
VotePlanDecryptSharesTryFrom(bundles) ==
    {[ok |-> FALSE],
     [ok |-> TRUE, v |-> [p \in 1..MaxLen(bundles, 1) |-> SharesAt(bundles, p, 1)]]}

\* the outcomes of the command: a failed read of the bundles, or whatever
\* try_from makes of them
MergeSharesExec(docs) ==
    LET shares == ReadBundles(docs, 1, <<>>)
    IN IF ~shares.ok THEN {Failure(shares.err, shares.opened)}
       ELSE {IF ~vote_plan_shares.ok THEN Failure("Shares", shares.opened)
             ELSE Success(<<vote_plan_shares.v>>, shares.opened) :
                vote_plan_shares \in VotePlanDecryptSharesTryFrom(shares.v)}


(***************************************************************************)
(* The inputs the commands are run on.                                     *)
(***************************************************************************)
Identifiers == {"id1", "id2", "id3"}
Seeds == {1, 4711}
SampleKeys == {3, 40961}
TallyBytes == {1, 7, InvalidPoint}
SampleShares == {<<3>>, <<21, 3>>}

\* rosters: every sequence of identifiers (repetitions included), the alias
\* of a member being its number
Rosters ==
    {[i \in 1..Len(ids) |-> <<i, ids[i]>>] : ids \in SeqsUpTo(Identifiers, MaxRoster)}

\* key file contents: the three kinds of key line, lines that are no valid
\* key text (broken checksum, short payload, non-zero padding), key lines
\* written in upper case, a line of both cases, a line whose tag holds a
\* space, and a line whose tag is one character too long (84 times "a",
\* no payload, followed by the checksum of that tag)
KeyLines ==
    UNION {{MemberSecretKeyLine(k), CommunicationKeyLine(k), ElectionKeyToBase32(k)} :
               k \in SampleKeys}
    \cup {[hrp |-> MEMBER_SK_HRP, data |-> <<1, 2, 3, 4, 5, 6, 7, 8, 9, 10>>],
          [hrp |-> COMMUNICATION_SK_HRP, data |-> <<1, 2, 3, 4, 5, 6, 7, 8, 9, 10>>],
          Bech32Encode(MEMBER_SK_HRP, ToBase32(<<1>>)),
          Bech32Encode(MEMBER_SK_HRP, <<1, 1, 1, 1>>),
          UpperCase(MemberSecretKeyLine(3)),
          UpperCase(CommunicationKeyLine(3)),
          [hrp |-> UpperCase(MemberSecretKeyLine(3)).hrp,
           data |-> MemberSecretKeyLine(3).data],
          [hrp |-> <<32>> \o MEMBER_SK_HRP,
           data |-> ToBase32(KeyToBytes(3))
                      \o CreateChecksum(<<32>> \o MEMBER_SK_HRP, ToBase32(KeyToBytes(3)))],
          [hrp |-> [i \in 1..(MaxHrpLen + 1) |-> 97],
           data |-> <<18, 16, 13, 26, 25, 20>>]}

KeyFiles == {NoFile} \cup {FileOf(l) : l \in KeyLines}

\* tally file contents: the transport encoding of every blob, with its
\* padding, with less or more of it, and cut short after any of its
\* characters; and texts with a character outside the alphabet or a single
\* character
TallyBlobs == SeqsUpTo(TallyBytes, MaxTallyLen)
TallyFiles ==
    {NoFile}
    \cup {FileOf([sym |-> Base64Encode(b).sym, pad |-> p]) : b \in TallyBlobs, p \in 0..3}
    \cup UNION {{FileOf([sym |-> SubSeq(Base64Encode(b).sym, 1, n), pad |-> 0]) :
                    n \in 0..Len(Base64Encode(b).sym)} : b \in TallyBlobs}
    \cup {FileOf([sym |-> <<64, 0, 0, 0>>, pad |-> 0]), FileOf([sym |-> <<0>>, pad |-> 0])}

\* the tallies of a proposal: two well-formed encrypted tallies, a truncated
\* and a corrupted one, and the states that hold no encrypted tally
PlanTallies ==
    {TallyNone, TallyPublic, TallyDecrypted,
     TallyEncrypted(<<1, 7>>), TallyEncrypted(<<7, 1>>),
     TallyEncrypted(<<1>>), TallyEncrypted(<<1, InvalidPoint>>)}

VotePlans ==
    {[ok |-> FALSE]} \cup
    {[ok |-> TRUE,
      proposals |-> [i \in 1..Len(ts) |-> [proposal_id |-> i, tally |-> ts[i]]]] :
        ts \in SeqsUpTo(PlanTallies, MaxProposals)}

BundleDocs ==
    {[state |-> "unreadable"], [state |-> "malformed"]} \cup
    {[state |-> "bundle", shares |-> b] : b \in SeqsUpTo(SampleShares, MaxBundleLen)}

KeyFileNames == {"communication_key.sk", "member_secret_key.sk", "encrypting_vote_key.sk"}

(***************************************************************************)
(* The state: the command run and its inputs, the key manager built by key *)
(* generation, the key directories written, and the command's result.      *)
(***************************************************************************)
NoManager == [panic |-> FALSE, data |-> <<>>, rng |-> 0]
NoResult == [ok |-> TRUE, stdout |-> <<>>, reads |-> <<>>]

Init ==
    /\ pc = "start"
    /\ op = "none"
    /\ input = <<>>
    /\ manager = NoManager
    /\ files = <<>>
    /\ result = NoResult
    /\ log = <<>>

\* PrivateVoteCommitteeDataManager::new(rng, committees, threshold)
GenerateOn(seeds, rosters, thresholds) ==
    /\ pc = "start"
    /\ \E seed \in seeds, committees \in rosters, threshold \in thresholds :
          /\ input' = [rng |-> seed, committees |-> committees, threshold |-> threshold]
          /\ manager' = ManagerNew(seed, committees, threshold)
    /\ pc' = "generated"
    /\ op' = "generate"
    /\ UNCHANGED <<files, result, log>>

Generate == GenerateOn(Seeds, Rosters, 0..MaxThreshold)

\* PrivateVoteCommitteeData::write_to: the three files of one member
MemberDirectory(d) ==
    [name \in KeyFileNames |->
        IF name = "communication_key.sk" THEN FileOf(CommunicationKeyLine(d.communication_key))
        ELSE IF name = "member_secret_key.sk"
          THEN FileOf(MemberSecretKeyLine(d.member_secret_key))
        ELSE FileOf(ElectionKeyToBase32(d.election_public_key))]

\* a file whose writeln! failed: File::create has made or truncated it and
\* writeln! writes the text and then the newline, so the file holds the
\* first characters of the text, none, some or all of them
CutFile(text, written) ==
    LET chars == TextChars(text)
    IN IF written >= Len(chars) THEN FileOf(text)
       ELSE FileOf(TextOfChars(SubSeq(chars, 1, written)))

\* a directory create_dir_all has just made
EmptyDirectory == [name \in KeyFileNames |-> NoFile]

\* what the disk holds under a directory name
DirectoryOf(fs, directory) ==
    IF directory \in DOMAIN fs THEN fs[directory] ELSE EmptyDirectory

\* the place of a file in the order write_to writes them (lines 65-67)
FileNumber(name) ==
    IF name = "communication_key.sk" THEN 1
    ELSE IF name = "member_secret_key.sk" THEN 2
    ELSE 3

\* the unwrap() that fails while one member is written: none, the one of
\* create_dir_all, of the File::create or of the writeln! of the file-th
\* file; a failing writeln! has put out at most written characters
NoFault == [at |-> "none"]
Faults ==
    {NoFault, [at |-> "create_dir_all"]}
    \cup {[at |-> "create", file |-> k] : k \in 1..3}
    \cup {[at |-> "write", file |-> k, written |-> c] :
             k \in 1..3, c \in 0..Len(TextChars(MemberSecretKeyLine(0)))}

\* PrivateVoteCommitteeData::write_to(directory): create_dir_all, then the
\* three files in turn, each made or truncated by File::create and filled by
\* writeln!.  A failing step panics and leaves what the steps before it did;
\* files of the directory that are not written stay as they were.  lines is
\* MemberDirectory of the member, the three files as write_to fills them.
PrivateVoteCommitteeDataWriteTo(fs, directory, lines, fault) ==
    IF fault.at = "create_dir_all" THEN [panic |-> TRUE, files |-> fs]
    ELSE LET old == DirectoryOf(fs, directory)
             new == [name \in KeyFileNames |->
                        IF fault.at = "none" \/ FileNumber(name) < fault.file
                          THEN lines[name]
                        ELSE IF FileNumber(name) > fault.file \/ fault.at = "create"
                          THEN old[name]
                        ELSE CutFile(lines[name].line, fault.written)]
         IN [panic |-> fault.at # "none", files |-> MapInsert(fs, directory, new)]

\* the orders in which a HashMap may hand out its keys
Orders(S) ==
    {order \in [1..Cardinality(S) -> S] :
        \A i, j \in 1..Cardinality(S) : order[i] = order[j] => i = j}

RECURSIVE ManagerWriteLoop(_, _, _, _, _, _)
\* for (id, data) in self.data.iter(): the member at place failing of the
\* iteration (0: none) meets the fault
ManagerWriteLoop(fs, lines, order, i, failing, fault) ==
    IF i > Len(order) THEN [panic |-> FALSE, files |-> fs]
    ELSE LET w == PrivateVoteCommitteeDataWriteTo(fs, order[i], lines[order[i]],
                      IF i = failing THEN fault ELSE NoFault)
         IN IF w.panic THEN w
            ELSE ManagerWriteLoop(w.files, lines, order, i + 1, failing, fault)

\* PrivateVoteCommitteeDataManager::write_to: one directory per identifier,
\* named by the identifier; directories of other identifiers are left alone
WriteToOn(faults) ==
    /\ pc = "generated"
    /\ ~manager.panic
    /\ \E lines \in {[id \in DOMAIN manager.data |-> MemberDirectory(manager.data[id])]} :
          \E order \in Orders(DOMAIN manager.data), failing \in 0..Cardinality(DOMAIN manager.data), fault \in faults :
             /\ (failing = 0) = (fault = NoFault)
             /\ LET w == ManagerWriteLoop(files, lines, order, 1, failing, fault)
                IN /\ files' = w.files
                   /\ pc' = IF w.panic THEN "panicked" ELSE "written"
    /\ op' = "write_to"
    /\ UNCHANGED <<input, manager, result, log>>

WriteTo == WriteToOn(Faults)

\* PrivateVoteCommitteeData::write_to called on one entry of the manager,
\* with the directory named by the entry's identifier
WriteMemberToOn(faults) ==
    /\ pc = "generated"
    /\ ~manager.panic
    /\ \E id \in DOMAIN manager.data :
          \E lines \in {MemberDirectory(manager.data[id])}, fault \in faults :
             LET w == PrivateVoteCommitteeDataWriteTo(files, id, lines, fault)
             IN /\ files' = w.files
                /\ pc' = IF w.panic THEN "panicked" ELSE "written"
    /\ op' = "member_write_to"
    /\ UNCHANGED <<input, manager, result, log>>

WriteMemberTo == WriteMemberToOn(Faults)

\* jcli reads a written key file as the decryption key
ReadKeyFile ==
    /\ pc = "written"
    /\ \E id \in DOMAIN files, name \in KeyFileNames :
          /\ input' = [id |-> id, name |-> name]
          /\ result' = ReadDecryptionKey(files[id][name])
    /\ pc' = "done"
    /\ op' = "read_decryption_key"
    /\ UNCHANGED <<manager, files, log>>

\* a written key file is parsed as the encrypting vote key
ReadEncryptingKey ==
    /\ pc = "written"
    /\ \E id \in DOMAIN files, name \in KeyFileNames :
          /\ files[id][name].exists
          /\ input' = [id |-> id, name |-> name]
          /\ result' = EncryptingKeyFromBase32(files[id][name].line)
    /\ pc' = "done"
    /\ op' = "encrypting_key_from_base32"
    /\ UNCHANGED <<manager, files, log>>

\* jcli vote tally decryption-share --tally .. --key ..
DecryptionShareOn(tallies, keys) ==
    /\ pc = "start"
    /\ \E tally \in tallies, key \in keys :
          /\ input' = [encrypted_tally |-> tally, decryption_key |-> key]
          /\ result' = TallyGenerateDecryptionShareExec(tally, key)
    /\ pc' = "done"
    /\ op' = "decryption_share"
    /\ UNCHANGED <<manager, files, log>>

DecryptionShare == DecryptionShareOn(TallyFiles, KeyFiles)

\* jcli vote tally vote-plan-decryption-shares --vote-plan .. --key ..
VotePlanDecryptionSharesOn(plans, keys) ==
    /\ pc = "start"
    /\ \E vote_plan \in plans, key \in keys :
          /\ input' = [vote_plan |-> vote_plan, key |-> key]
          /\ result' = TallyGenerateVotePlanDecryptionSharesExec(vote_plan, key)
    /\ pc' = "done"
    /\ op' = "vote_plan_decryption_shares"
    /\ UNCHANGED <<manager, files, log>>

VotePlanDecryptionShares == VotePlanDecryptionSharesOn(VotePlans, KeyFiles)

\* jcli vote tally merge-shares <shares>...
MergeSharesOn(arguments) ==
    /\ pc = "start"
    /\ \E docs \in arguments :
          /\ input' = [shares |-> docs]
          /\ result' \in MergeSharesExec(docs)
    /\ pc' = "done"
    /\ op' = "merge_shares"
    /\ UNCHANGED <<manager, files, log>>

MergeShares == MergeSharesOn(SeqsUpTo(BundleDocs, MaxBundles))

Next ==
    \/ Generate
    \/ WriteTo
    \/ WriteMemberTo
    \/ ReadKeyFile
    \/ ReadEncryptingKey
    \/ DecryptionShare
    \/ VotePlanDecryptionShares
    \/ MergeShares

Spec == Init /\ [][Next]_vars

(***************************************************************************)
(* Several commands one after another.  Every jcli command is a process of *)
(* its own and the manager lives in the memory of the process that built   *)
(* it, so nothing but the files on disk outlives a command.  Exit ends the *)
(* running command and notes it in the log.  The commands draw their       *)
(* arguments from a few samples.                                           *)
(***************************************************************************)
RunRosters == {<<<<1, "id1">>>>, <<<<1, "id1">>, <<2, "id2">>>>}
RunKeyFiles == {FileOf(MemberSecretKeyLine(k)) : k \in SampleKeys}
RunTallyFiles == {FileOf(Base64Encode(<<1, 7>>)), FileOf(Base64Encode(<<7, 1, 1, 7>>))}
RunVotePlans == {[ok |-> TRUE, proposals |-> <<[proposal_id |-> 1, tally |-> TallyEncrypted(<<1, 7>>)]>>]}
RunBundles ==
    {<<[state |-> "bundle", shares |-> <<<<3>>>>],
       [state |-> "bundle", shares |-> <<<<21, 3>>>>]>>}

RunFaults == {NoFault, [at |-> "create", file |-> 2]}

RunGenerate == GenerateOn({1}, RunRosters, {1})
RunWriteTo == WriteToOn(RunFaults)
RunDecryptionShare == DecryptionShareOn(RunTallyFiles, RunKeyFiles)
RunVotePlanDecryptionShares == VotePlanDecryptionSharesOn(RunVotePlans, RunKeyFiles)
RunMergeShares == MergeSharesOn(RunBundles)

\* the end of a command: its process is gone, its files stay
Exit ==
    /\ pc # "start"
    /\ Len(log) < MaxRuns
    /\ log' = Append(log, [op |-> op, input |-> input, result |-> result])
    /\ pc' = "start"
    /\ op' = "none"
    /\ input' = <<>>
    /\ manager' = NoManager
    /\ result' = NoResult
    /\ UNCHANGED files

NextRuns ==
    \/ RunGenerate
    \/ RunWriteTo
    \/ RunDecryptionShare
    \/ RunVotePlanDecryptionShares
    \/ RunMergeShares
    \/ Exit

RunsSpec == Init /\ [][NextRuns]_vars

(***************************************************************************)
(* Properties.                                                             *)
(***************************************************************************)
\* the k-th smallest element of a set of numbers
Kth(S, k) == CHOOSE i \in S : Cardinality({j \in S : j <= i}) = k

RosterIds(committees) == {committees[i][2] : i \in 1..Len(committees)}
UniqueIds(committees) == Cardinality(RosterIds(committees)) = Len(committees)

Generated == pc = "generated" /\ op = "generate"
InvalidThreshold == input.threshold = 0 \/ input.threshold > Len(input.committees)
GenerateOutcome == IF manager.panic THEN "panic" ELSE "returned"

\* C1: key generation with threshold 0 or a threshold above the size of the
\* roster fails with InvalidThreshold and returns no key material.
C1_InvalidThresholdRejected ==
    (Generated /\ InvalidThreshold) =>
        (GenerateOutcome = "InvalidThreshold" /\ manager.data = <<>>)

VotePlanRun == pc = "done" /\ op = "vote_plan_decryption_shares" /\ input.vote_plan.ok
Proposals == input.vote_plan.proposals

\* the positions of the proposals whose tally is private and encrypted
EncryptedProposals ==
    {i \in 1..Len(Proposals) : Proposals[i].tally.kind = "PrivateEncrypted"}

\* the positions of those whose ciphertext cannot be parsed
UnparsableProposals ==
    {i \in EncryptedProposals :
        ~EncryptedTallyFromBytes(Proposals[i].tally.encrypted_tally).some}

\* C2: a private encrypted proposal whose ciphertext cannot be parsed makes
\* the whole bundle generation fail with nothing printed; a bundle that is
\* printed holds a share for every private encrypted proposal.
C2_UnparsableTallyAborts ==
    VotePlanRun =>
        /\ UnparsableProposals # {} => (~result.ok /\ result.stdout = <<>>)
        /\ result.ok => Len(result.stdout[1]) = Cardinality(EncryptedProposals)

\* C3: with a readable key, bundle generation succeeds on every proposal
\* list and prints exactly the shares of the private encrypted proposals, in
\* the order of the list; the other proposals contribute nothing.
C3_ExactlyEncryptedSharesInOrder ==
    (VotePlanRun /\ ReadDecryptionKey(input.key).ok) =>
        /\ result.ok
        /\ Len(result.stdout) = 1
        /\ Len(result.stdout[1]) = Cardinality(EncryptedProposals)
        /\ \A k \in 1..Cardinality(EncryptedProposals) :
              LET t == EncryptedTallyFromBytes(
                           Proposals[Kth(EncryptedProposals, k)].tally.encrypted_tally)
              IN /\ t.some
                 /\ result.stdout[1][k] = Finish(t.v, ReadDecryptionKey(input.key).key)

\* On the proposal lists whose encrypted tallies all parse, the bundle is
\* exactly the shares of the private encrypted proposals, in order.
ParsableVotePlanSharesInOrder ==
    (VotePlanRun /\ ReadDecryptionKey(input.key).ok /\ UnparsableProposals = {}) =>
        /\ result.ok
        /\ result.stdout =
             <<[k \in 1..Cardinality(EncryptedProposals) |->
                  Finish(EncryptedTallyFromBytes(
                             Proposals[Kth(EncryptedProposals, k)].tally.encrypted_tally).v,
                         ReadDecryptionKey(input.key).key)]>>

MergeRun == pc = "done" /\ op = "merge_shares"
Docs == input.shares

\* C9: when one of the supplied documents is no validly structured bundle,
\* wherever it stands, the merge fails and prints nothing; the failure is the
\* deserialization error when every supplied file could be opened.
C9_MalformedBundleFailsMerge ==
    (MergeRun /\ \E i \in 1..Len(Docs) : Docs[i].state = "malformed") =>
        /\ ~result.ok
        /\ result.stdout = <<>>
        /\ (\A i \in 1..Len(Docs) : Docs[i].state # "unreadable") => result.err = "Json"

C9_Witness ==
    /\ MergeRun
    /\ Len(Docs) = 3
    /\ Docs[1].state = "bundle" /\ Docs[1].shares # <<>>
    /\ Docs[2].state = "bundle"
    /\ Docs[3].state = "malformed"
    /\ ~result.ok
    /\ result.err = "Json"
    /\ result.stdout = <<>>

KeyFileRead == pc = "done" /\ op = "read_decryption_key"
EncryptingKeyRead == pc = "done" /\ op = "encrypting_key_from_base32"
ShareRun == pc = "done" /\ op = "decryption_share"
\* the line of the written key file that was read
WrittenLine == files[input.id][input.name].line

\* the tally file of the share command holds a well-formed encrypted tally
TallyParses ==
    /\ input.encrypted_tally.exists
    /\ Base64Decode(input.encrypted_tally.line).ok
    /\ EncryptedTallyFromBytes(Base64Decode(input.encrypted_tally.line).v).some

\* the tag of a key text as decoding reports it: in lower case
Tag(text) == [i \in 1..Len(text.hrp) |-> ToLower(text.hrp[i])]

\* C6: a key text whose tag is not the expected one is never decoded to a
\* key, in whichever case the text is written: reading the decryption key
\* accepts only the member secret key tag and fails with InvalidSecretKey on
\* a well-formed text of another tag; encrypting_key_from_base32 accepts
\* only the encrypting vote key tag and fails with InvalidBech32Key on a
\* well-formed text of another tag.
C6_ForeignTagRejected ==
    /\ (KeyFileRead /\ Tag(WrittenLine) # MEMBER_SK_HRP) =>
          (~result.ok /\ result.err = "InvalidSecretKey")
    /\ (EncryptingKeyRead /\ Tag(WrittenLine) # ENCRYPTING_VOTE_PK_HRP) =>
          (~result.ok /\ result.err = "InvalidBech32Key")
    /\ (ShareRun /\ TallyParses /\ input.decryption_key.exists
            /\ Tag(input.decryption_key.line) # MEMBER_SK_HRP) =>
          /\ ~result.ok
          /\ result.stdout = <<>>
          /\ Bech32Decode(input.decryption_key.line).ok => result.err = "InvalidSecretKey"
    /\ (VotePlanRun /\ input.key.exists /\ Tag(input.key.line) # MEMBER_SK_HRP) =>
          /\ ~result.ok
          /\ result.stdout = <<>>
          /\ Bech32Decode(input.key.line).ok => result.err = "InvalidSecretKey"

C6_Witness ==
    /\ KeyFileRead
    /\ input.name = "communication_key.sk"
    /\ WrittenLine.hrp = COMMUNICATION_SK_HRP
    /\ Bech32Decode(WrittenLine).ok
    /\ ~result.ok
    /\ result.err = "InvalidSecretKey"

C8_GenerateOneEntryPerMember ==
    (Generated /\ UniqueIds(input.committees)
        /\ 1 <= input.threshold /\ input.threshold <= Len(input.committees)) =>
        /\ ~manager.panic
        /\ Cardinality(DOMAIN manager.data) = Len(input.committees)
        /\ \A id \in Identifiers :
              ManagerGet(manager.data, id).some <=> id \in RosterIds(input.committees)
        /\ \A a, b \in DOMAIN manager.data :
              a # b => manager.data[a].member_secret_key # manager.data[b].member_secret_key

C8_Witness ==
    /\ Generated
    /\ Len(input.committees) = 3
    /\ UniqueIds(input.committees)
    /\ input.threshold = 2
    /\ ~manager.panic
    /\ Cardinality(DOMAIN manager.data) = 3

\* C10: the share command given a tally blob that is no well-formed
\* encrypted tally fails with EncryptedTallyRead, prints nothing, and has not
\* read the decryption key.
C10_MalformedTallyRejectedBeforeKey ==
    (ShareRun /\ input.encrypted_tally.exists
        /\ Base64Decode(input.encrypted_tally.line).ok
        /\ ~EncryptedTallyFromBytes(Base64Decode(input.encrypted_tally.line).v).some) =>
        /\ ~result.ok
        /\ result.err = "EncryptedTallyRead"
        /\ result.stdout = <<>>
        /\ result.reads = <<"tally">>

\* the transport text of one ciphertext cut short after its second
\* character, which decodes to half a ciphertext, with a valid key file
C10_Witness ==
    /\ ShareRun
    /\ input.encrypted_tally =
          FileOf([sym |-> SubSeq(Base64Encode(<<1, 7>>).sym, 1, 2), pad |-> 0])
    /\ Base64Decode(input.encrypted_tally.line) = [ok |-> TRUE, v |-> <<1>>]
    /\ ReadDecryptionKey(input.decryption_key).ok
    /\ ~result.ok
    /\ result.err = "EncryptedTallyRead"

\* C12: the bundle is keyed by proposal identity: the share the bundle holds
\* for a proposal (a proposal being identified in the bundle by its number in
\* the vote plan) was computed from that proposal's encrypted tally, also
\* when other proposals of the plan were skipped.
C12_BundleKeyedByProposal ==
    (VotePlanRun /\ result.ok) =>
        \A k \in 1..Len(result.stdout[1]) :
            /\ k \in EncryptedProposals
            /\ EncryptedTallyFromBytes(Proposals[k].tally.encrypted_tally).some
            /\ result.stdout[1][k] =
                 Finish(EncryptedTallyFromBytes(Proposals[k].tally.encrypted_tally).v,
                        ReadDecryptionKey(input.key).key)

\* C13: the election public key stored for an identifier is built from the
\* one-member participant list holding that member's own public key.
C13_ElectionKeyFromOwnKeyOnly ==
    (Generated /\ ~manager.panic) =>
        \A id \in DOMAIN manager.data :
            manager.data[id].election_public_key =
                FromParticipants(<<manager.data[id].member_public_key>>)

\* three members, threshold 2: each election key is the member's own public
\* key and not the aggregate of the committee's
C13_Witness ==
    /\ Generated
    /\ ~manager.panic
    /\ Len(input.committees) = 3
    /\ UniqueIds(input.committees)
    /\ input.threshold = 2
    /\ \A id \in DOMAIN manager.data :
          /\ manager.data[id].election_public_key = manager.data[id].member_public_key
          /\ manager.data[id].election_public_key #
                FromParticipants([i \in 1..3 |->
                    manager.data[input.committees[i][2]].member_public_key])

\* the n-th value drawn from the generator handed to key generation
Draw(n) == RngSkip(input.rng, n)

\* the communication public keys of the whole roster, in roster order
RosterCommunicationPublicKeys ==
    [k \in 1..Len(input.committees) |-> ToPublic(Draw(1 + k))]

RECURSIVE RngBeforeStep(_)
\* the generator as the secret-sharing step of member i (0-based) finds it:
\* after the reference parameter, the n communication keys and the steps of
\* the members 0..i-1 in this order
RngBeforeStep(i) ==
    IF i = 0 THEN Draw(1 + Len(input.committees))
    ELSE MemberStateNew(RngBeforeStep(i - 1), input.threshold, Draw(1),
                        RosterCommunicationPublicKeys, i - 1).rng

\* the secret-sharing step of member i (0-based) over the full roster
StepOf(i) ==
    MemberStateNew(RngBeforeStep(i), input.threshold, Draw(1),
                   RosterCommunicationPublicKeys, i)

\* the roster positions whose identifier is not used again further down
LastPositions ==
    {p \in 1..Len(input.committees) :
        \A q \in (p + 1)..Len(input.committees) :
            input.committees[q][2] # input.committees[p][2]}

\* C14: participant indices follow the roster position.  The generator is
\* consumed by the reference parameter, then the n communication keys, then
\* the steps of the members 0..n-1 in roster order, and the entry of the
\* identifier at roster position p (member p-1) holds communication key
\* number p with the secret and public key of the step run with index p-1
\* over the n communication public keys; the outcome is this function of the
\* generator, the roster and the threshold.
C14_IndexIsRosterPosition ==
    (Generated /\ input.threshold \in 1..Len(input.committees)) =>
        /\ ~manager.panic
        /\ manager.rng = RngBeforeStep(Len(input.committees))
        /\ DOMAIN manager.data = RosterIds(input.committees)
        /\ \A p \in LastPositions :
              LET entry == manager.data[input.committees[p][2]]
              IN /\ ~StepOf(p - 1).panic
                 /\ entry.alias = input.committees[p][1]
                 /\ entry.communication_key = Draw(1 + p)
                 /\ entry.member_secret_key = StepOf(p - 1).secret_key
                 /\ entry.member_public_key = StepOf(p - 1).public_key

\* three members, threshold 2: every step makes 2*2 + 2*2 = 8 draws and its
\* secret key is its third draw, so member p-1 holds draw 1 + 3 + 8(p-1) + 3
C14_Witness ==
    /\ Generated
    /\ ~manager.panic
    /\ Len(input.committees) = 3
    /\ UniqueIds(input.committees)
    /\ input.threshold = 2
    /\ \A p \in 1..3 :
          /\ manager.data[input.committees[p][2]].communication_key = Draw(1 + p)
          /\ manager.data[input.committees[p][2]].member_secret_key = Draw(8 * p - 1)
    /\ manager.rng = Draw(28)

=============================================================================
